---- MODULE Spec2Model ----
(***************************************************************************)
(* MCPcat event pipeline: content sanitization (modules/sanitization.py)   *)
(* and payload truncation (modules/truncation.py) over the Event container *)
(* (types.py).                                                             *)
(*                                                                         *)
(* Text is a sequence of segments, so that strings of 10 KB .. 200 KB keep *)
(* their real sizes: <<"run", class, n>> is n characters of one class,     *)
(* <<"lit", text, n>> the first n characters of a literal of the source,   *)
(* <<"num", v, n>> the first n decimal digits of v (an f-string field).    *)
(***************************************************************************)
EXTENDS Integers, Sequences, FiniteSets, TLC

(* ------------------------------ constants ------------------------------ *)

MAX_EVENT_BYTES == 102400
MAX_STRING_BYTES == 10240
MAX_DEPTH == 5
MAX_BREADTH == 500
MIN_DEPTH == 1
BREADTH_FLOOR == 10
_BASE64_SIZE_THRESHOLD == 10240

(* ------------------------------- strings ------------------------------- *)

\* Character classes: "b64" A-Za-z0-9+/, "eq" '=', "nl" '\n', "cr" '\r',
\* "sp" any other printable ASCII, "dq" '"', "u4" a 4-byte code point.
CharClasses == {"b64", "eq", "nl", "cr", "sp", "dq", "u4"}

Utf8Width(c) == IF c = "u4" THEN 4 ELSE 1

\* Bytes of one character inside a JSON string: '\n', '\r' and '"' are
\* escaped to two bytes, everything else is written as its UTF-8 bytes.
JsonWidth(c) == IF c \in {"nl", "cr", "dq"} THEN 2 ELSE Utf8Width(c)

RECURSIVE Digits(_)
Digits(v) == IF v < 10 THEN 1 ELSE 1 + Digits(v \div 10)

Run(c, n) == <<"run", c, n>>
Lit(s) == <<"lit", s, Len(s)>>
Num(v) == <<"num", v, Digits(v)>>

\* Literals of the source made of base64-alphabet characters only; every other
\* literal holds a space, a bracket or an underscore.
AlnumLits == {"text", "image", "audio", "resource", "video", "None", "hello", "keep", "ok"}

SegClass(s) ==
  IF s[1] = "run" THEN s[2]
  ELSE IF s[1] = "num" THEN "b64"
  ELSE IF s[2] \in AlnumLits THEN "b64" ELSE "sp"

SegCount(s) == s[3]
SegBytes(s) == IF s[1] = "run" THEN s[3] * Utf8Width(s[2]) ELSE s[3]
SegJsonBytes(s) == IF s[1] = "run" THEN s[3] * JsonWidth(s[2]) ELSE s[3]

\* q[lo] + ... + q[hi], by halves
RECURSIVE SumRange(_, _, _)
SumRange(q, lo, hi) ==
  IF lo > hi THEN 0
  ELSE IF lo = hi THEN q[lo]
  ELSE LET mid == (lo + hi) \div 2
       IN SumRange(q, lo, mid) + SumRange(q, mid + 1, hi)
SumSeq(q) == SumRange(q, 1, Len(q))

\* len(value): characters
StrLen(str) == SumSeq([i \in 1..Len(str) |-> SegCount(str[i])])
\* len(value.encode("utf-8"))
StrBytes(str) == SumSeq([i \in 1..Len(str) |-> SegBytes(str[i])])
\* the string as a JSON string, quotes included
JsonStrBytes(str) == 2 + SumSeq([i \in 1..Len(str) |-> SegJsonBytes(str[i])])

\* value.encode("utf-8")[:keep].decode("utf-8", errors="ignore"): the longest
\* prefix of whole characters within keep bytes.
RECURSIVE Utf8Prefix(_, _)
Utf8Prefix(str, keep) ==
  IF str = <<>> \/ keep <= 0 THEN <<>>
  ELSE LET s == Head(str)
           w == IF s[1] = "run" THEN Utf8Width(s[2]) ELSE 1
       IN IF s[3] * w <= keep
          THEN <<s>> \o Utf8Prefix(Tail(str), keep - s[3] * w)
          ELSE IF keep \div w = 0 THEN <<>>
               ELSE <<[s EXCEPT ![3] = keep \div w]>>

TruncatedMarker(byte_size) ==
  <<Lit("[string truncated by MCPcat from "), Num(byte_size), Lit(" bytes]")>>

\* a slip: a string of exactly max_bytes bytes is cut as well
TruncateStringBelowLimit(value, max_bytes) ==
  LET byte_size == StrBytes(value)
      marker == TruncatedMarker(byte_size)
      keep_bytes == max_bytes - StrBytes(marker)
  IN IF byte_size < max_bytes THEN value
     ELSE IF keep_bytes <= 0 THEN marker
     ELSE Utf8Prefix(value, keep_bytes) \o marker

_truncate_string(value, max_bytes) ==
  LET byte_size == StrBytes(value)
      marker == TruncatedMarker(byte_size)
      keep_bytes == max_bytes - StrBytes(marker)
  IN IF byte_size <= max_bytes THEN value
     ELSE IF keep_bytes <= 0 THEN marker
     ELSE Utf8Prefix(value, keep_bytes) \o marker

(* -------------------------------- values ------------------------------- *)

\* A Python value: <<type, payload>>.  A dict is the sequence of its
\* entries [k |-> key text, v |-> value] in insertion order, keys distinct.
Null == <<"null", 0>>
Bool(b) == <<"bool", b>>
IntV(n) == <<"int", n>>
Str(s) == <<"str", s>>
List(items) == <<"list", items>>
Tuple(items) == <<"tuple", items>>
Dict(entries) == <<"dict", entries>>
TypeOf(val) == val[1]
\* the payload: a number, a boolean, a string's segments, the items, the entries
Of(val) == val[2]
Entry(key, val) == [k |-> key, v |-> val]
Text(s) == Str(<<Lit(s)>>)
Key(s) == <<Lit(s)>>

IsComposite(val) == TypeOf(val) \in {"dict", "list", "tuple"}

HasKey(entries, key) == \E i \in 1..Len(entries) : entries[i].k = key
\* dict.get(key): None when the key is absent
Get(entries, key) ==
  IF HasKey(entries, key)
  THEN entries[CHOOSE i \in 1..Len(entries) : entries[i].k = key].v
  ELSE Null
\* d[key] = val: an existing key keeps its position
DictSet(entries, key, val) ==
  IF HasKey(entries, key)
  THEN [i \in 1..Len(entries) |->
          IF entries[i].k = key THEN Entry(key, val) ELSE entries[i]]
  ELSE Append(entries, Entry(key, val))

\* Size of the compact JSON text pydantic's model_dump_json writes.
RECURSIVE JsonBytes(_)
JsonBytes(val) ==
  CASE TypeOf(val) = "null" -> 4
    [] TypeOf(val) = "bool" -> IF Of(val) THEN 4 ELSE 5
    [] TypeOf(val) = "int" -> Digits(Of(val))
    [] TypeOf(val) = "str" -> JsonStrBytes(Of(val))
    [] TypeOf(val) \in {"list", "tuple"} ->
         2 + SumSeq([i \in 1..Len(Of(val)) |-> JsonBytes(Of(val)[i])])
           + (IF Len(Of(val)) > 1 THEN Len(Of(val)) - 1 ELSE 0)
    [] TypeOf(val) = "dict" ->
         2 + SumSeq([i \in 1..Len(Of(val)) |->
                       JsonStrBytes(Of(val)[i].k) + 1 + JsonBytes(Of(val)[i].v)])
           + (IF Len(Of(val)) > 1 THEN Len(Of(val)) - 1 ELSE 0)

(* ------------------------- truncation.py: values ------------------------ *)

DepthMarker(max_depth) ==
  Str(<<Lit("[nested content truncated by MCPcat at depth "), Num(max_depth), Lit("]")>>)

MoreItemsMarker(remaining) ==
  Str(<<Lit("[... "), Num(remaining), Lit(" more items truncated by MCPcat]")>>)

\* _truncate_value(value, max_depth=md, max_string_bytes=ms, max_breadth=mb,
\* _depth=d).  Values here are trees, no composite is its own ancestor, so
\* the _seen test of line 61 is never taken.
RECURSIVE _truncate_value(_, _, _, _, _)
_truncate_value(value, md, ms, mb, d) ==
  CASE TypeOf(value) \in {"null", "bool", "int"} -> value
    [] TypeOf(value) = "str" -> Str(_truncate_string(Of(value), ms))
    [] TypeOf(value) = "dict" ->
         \* lines 69-86: the keys of a dict are distinct strings, so
         \* result[str(k)] adds one entry per pass, in order, until the
         \* pass with i >= max_breadth sets "__truncated__" and breaks
         LET items == Of(value)
             n == Len(items)
             kept == IF n < mb THEN n ELSE mb
             head == [i \in 1..kept |->
                        Entry(items[i].k,
                              IF d >= md /\ IsComposite(items[i].v)
                              THEN DepthMarker(md)
                              ELSE _truncate_value(items[i].v, md, ms, mb, d + 1))]
         IN Dict(IF n > mb
                 THEN DictSet(head, Key("__truncated__"), MoreItemsMarker(n - mb))
                 ELSE head)
    [] TypeOf(value) \in {"list", "tuple"} ->
         IF d >= md THEN DepthMarker(md)
         ELSE LET n == Len(Of(value))
                  kept == IF n < mb THEN n ELSE mb
                  head == [i \in 1..kept |->
                             _truncate_value(Of(value)[i], md, ms, mb, d + 1)]
              IN List(IF n > mb THEN Append(head, MoreItemsMarker(n - mb)) ELSE head)

(* ---------------------------- sanitization.py --------------------------- *)

_IMAGE_REDACTED == Text("[image content redacted - not supported by mcpcat]")
_AUDIO_REDACTED == Text("[audio content redacted - not supported by mcpcat]")
_BLOB_RESOURCE_REDACTED == Text("[binary resource content redacted - not supported by mcpcat]")
_BINARY_DATA_REDACTED == Text("[binary data redacted - not supported by mcpcat]")

\* str(x) of a value used as a block type
PyStr(val) ==
  CASE TypeOf(val) = "str" -> Of(val)
    [] TypeOf(val) = "null" -> <<Lit("None")>>
    [] TypeOf(val) = "int" -> <<Num(Of(val))>>
    [] TypeOf(val) = "bool" -> <<Lit(IF Of(val) THEN "True" ELSE "False")>>
    [] OTHER -> <<Lit("{...}")>>

_unsupported_type_redacted(type_name) ==
  Str(<<Lit("[unsupported content type "), Run("dq", 1)>> \o type_name
      \o <<Run("dq", 1), Lit(" redacted - not supported by mcpcat]")>>)

\* _BASE64_PATTERN.match(value) for ^[A-Za-z0-9+/\n\r]+=*$ : one or more
\* alphabet or line-break characters, then any number of '=', up to the end of
\* the string, where Python's $ also matches just before one final '\n'.
_BASE64_PATTERN(str) ==
  LET n == Len(str)
      body(i) == SegClass(str[i]) \in {"b64", "nl", "cr"}
      pad(i) == SegClass(str[i]) = "eq"
  IN \E i \in 1..n : \E j \in i..n :
       /\ \A h \in 1..i : body(h)
       /\ \A h \in (i + 1)..j : pad(h)
       /\ \/ j = n
          \/ j = n - 1 /\ SegClass(str[n]) = "nl" /\ SegCount(str[n]) = 1

\* a slip: the boundary excluded
AtThresholdStrict(length) == length > _BASE64_SIZE_THRESHOLD
\* len(value) >= _BASE64_SIZE_THRESHOLD
AtThreshold(length) == length >= _BASE64_SIZE_THRESHOLD

RECURSIVE _scan_for_base64(_)
_scan_for_base64(value) ==
  CASE TypeOf(value) = "null" -> value
    [] TypeOf(value) = "str" ->
         IF AtThreshold(StrLen(Of(value))) /\ _BASE64_PATTERN(Of(value))
         THEN _BINARY_DATA_REDACTED
         ELSE value
    [] TypeOf(value) = "list" -> List([i \in 1..Len(Of(value)) |-> _scan_for_base64(Of(value)[i])])
    [] TypeOf(value) = "dict" ->
         Dict([i \in 1..Len(Of(value)) |->
                 Entry(Of(value)[i].k, _scan_for_base64(Of(value)[i].v))])
    [] OTHER -> value

TextBlock(text) == Dict(<<Entry(Key("type"), Text("text")), Entry(Key("text"), text)>>)

\* a slip: the audio branch missing, so audio falls to the unknown kinds
SanitizeBlockNoAudio(block) ==
  IF TypeOf(block) # "dict" THEN block
  ELSE LET block_type == Get(Of(block), Key("type"))
       IN IF block_type \in {Text("text"), Text("resource_link")} THEN block
          ELSE IF block_type = Text("image") THEN TextBlock(_IMAGE_REDACTED)
          ELSE IF block_type = Text("resource")
               THEN LET resource == Get(Of(block), Key("resource"))
                    IN IF TypeOf(resource) = "dict" /\ HasKey(Of(resource), Key("blob"))
                       THEN TextBlock(_BLOB_RESOURCE_REDACTED)
                       ELSE block
          ELSE TextBlock(_unsupported_type_redacted(PyStr(block_type)))

_sanitize_content_block(block) ==
  IF TypeOf(block) # "dict" THEN block
  ELSE LET block_type == Get(Of(block), Key("type"))
       IN IF block_type \in {Text("text"), Text("resource_link")} THEN block
          ELSE IF block_type = Text("image") THEN TextBlock(_IMAGE_REDACTED)
          ELSE IF block_type = Text("audio") THEN TextBlock(_AUDIO_REDACTED)
          ELSE IF block_type = Text("resource")
               THEN LET resource == Get(Of(block), Key("resource"))
                    IN IF TypeOf(resource) = "dict" /\ HasKey(Of(resource), Key("blob"))
                       THEN TextBlock(_BLOB_RESOURCE_REDACTED)
                       ELSE block
          ELSE TextBlock(_unsupported_type_redacted(PyStr(block_type)))

\* _sanitize_response on the entries of the response dict; the caller stores
\* the result back into the same dict object (the code assigns in place).
_sanitize_response(response) ==
  LET content == Get(response, Key("content"))
      r1 == IF HasKey(response, Key("content")) /\ TypeOf(content) = "list"
            THEN DictSet(response, Key("content"),
                         List([i \in 1..Len(Of(content)) |->
                                 _sanitize_content_block(Of(content)[i])]))
            ELSE response
  IN IF HasKey(r1, Key("structured_content"))
     THEN DictSet(r1, Key("structured_content"),
                  _scan_for_base64(Get(r1, Key("structured_content"))))
     ELSE r1

(* ------------------------------ the Event ------------------------------ *)

\* Fields in declaration order: the base event's, then UnredactedEvent's own.
EventFields ==
  <<"id", "session_id", "timestamp", "event_type", "resource_name", "parameters",
    "response", "error", "user_intent", "identify_data", "redaction_fn">>
\* Fields declared as mappings; each holds the address of a dict object, 0 for None.
MappingFields == <<"parameters", "response", "error", "identify_data">>
MappingSet == {MappingFields[i] : i \in 1..Len(MappingFields)}
\* Fields declared as strings (or None).
StringSet == {"id", "session_id", "event_type", "resource_name", "user_intent"}

\* The heap: h.events[a] is the Event object at address a, h.dicts[d] the
\* entries of the dict object at address d.
FieldValue(h, a, f) ==
  IF f \in MappingSet
  THEN IF h.events[a][f] = 0 THEN Null ELSE Dict(h.dicts[h.events[a][f]])
  ELSE h.events[a][f]

\* event.model_dump()
model_dump(h, a) ==
  Dict([i \in 1..Len(EventFields) |->
          Entry(Key(EventFields[i]), FieldValue(h, a, EventFields[i]))])

\* len(event.model_dump_json().encode("utf-8"))
model_dump_json_bytes(h, a) == JsonBytes(model_dump(h, a))

\* Allocate an Event whose fields have the values vals[f] (a mapping field's
\* value a Dict or Null): fresh dict objects, then the fresh Event object.
NewEvent(h, vals) ==
  LET isDict(i) == TypeOf(vals[MappingFields[i]]) = "dict"
      addr(i) == IF isDict(i)
                 THEN Len(h.dicts) + Cardinality({j \in 1..i : isDict(j)})
                 ELSE 0
      fresh == SelectSeq([i \in 1..Len(MappingFields) |-> vals[MappingFields[i]]],
                         LAMBDA x : TypeOf(x) = "dict")
      ev == [f \in DOMAIN vals |->
               IF f \in MappingSet
               THEN addr(CHOOSE i \in 1..Len(MappingFields) : MappingFields[i] = f)
               ELSE vals[f]]
  IN [h |-> [events |-> Append(h.events, ev),
             dicts |-> h.dicts \o [i \in 1..Len(fresh) |-> Of(fresh[i])]],
      a |-> Len(h.events) + 1]

\* event_cls.model_validate(d): a missing field takes its default None, a key
\* that is no field is ignored, a mapping field must hold a mapping or None
\* and a string field a string or None; ok = FALSE is a ValidationError.
model_validate(h, d) ==
  LET vals == [f \in {EventFields[i] : i \in 1..Len(EventFields)} |-> Get(Of(d), Key(f))]
      ok == /\ \A f \in MappingSet : TypeOf(vals[f]) \in {"null", "dict"}
            /\ \A f \in StringSet : TypeOf(vals[f]) \in {"null", "str"}
  IN IF ok THEN [ok |-> TRUE] @@ NewEvent(h, vals)
     ELSE [ok |-> FALSE, h |-> h, a |-> 0]

\* a slip: copy.copy(event), a new Event object holding the same dict objects
shallowcopy(h, a) ==
  [h |-> [events |-> Append(h.events, h.events[a]), dicts |-> h.dicts],
   a |-> Len(h.events) + 1]
\* copy.deepcopy(event): a new Event object with new dict objects throughout
deepcopy(h, a) ==
  NewEvent(h, [f \in DOMAIN h.events[a] |-> FieldValue(h, a, f)])

\* sanitize_event(event), event not None
sanitize_event(h, a) ==
  LET c == deepcopy(h, a)
      ev == c.h.events[c.a]
      h1 == IF ev.response # 0
            THEN [c.h EXCEPT !.dicts[ev.response] = _sanitize_response(@)]
            ELSE c.h
      scanned == _scan_for_base64(Dict(h1.dicts[ev.parameters]))
  IN IF ev.parameters # 0
     THEN [h |-> [events |-> [h1.events EXCEPT ![c.a].parameters = Len(h1.dicts) + 1],
                  dicts |-> Append(h1.dicts, Of(scanned))],
           a |-> c.a]
     ELSE [h |-> h1, a |-> c.a]

(* ------------------------------ the inputs ----------------------------- *)

\* bytes of an oversized string or key
BigBytes == 200000
\* entries of the mapping with many moderate values (truncation test: 200 x 1 KB)
ManyKeys == 200
\* entries of the mapping whose keys are long
LongKeys == 12

B64(n) == <<Run("b64", n)>>
Threshold == _BASE64_SIZE_THRESHOLD

\* Strings around the scanner's threshold and pattern, and around the limits.
StringPool ==
  { <<Lit("hello")>>,
    B64(Threshold - 1),
    B64(Threshold),
    B64(Threshold) \o <<Run("eq", 2)>>,
    B64(Threshold - 3) \o <<Run("eq", 2)>>,
    B64(Threshold) \o <<Run("nl", 1)>>,
    B64(Threshold) \o <<Run("eq", 1), Run("nl", 1)>>,
    B64(Threshold) \o <<Run("eq", 1), Run("cr", 1)>>,
    B64(Threshold) \o <<Run("eq", 1), Run("nl", 2)>>,
    <<Run("eq", Threshold)>>,
    B64(5000) \o <<Run("eq", 1)>> \o B64(Threshold - 5001),
    B64(5000) \o <<Run("cr", 1), Run("nl", 1)>> \o B64(Threshold - 5002),
    B64(Threshold) \o <<Run("sp", 1)>>,
    <<Run("sp", BigBytes)>>,
    B64(BigBytes) \o <<Run("eq", 2)>>,
    <<Run("u4", 2561)>> }

NestPool == { <<Lit("hello")>>, B64(Threshold) \o <<Run("eq", 2)>>, B64(BigBytes) \o <<Run("eq", 2)>> }

NumKey(prefix, i) == <<Lit(prefix), Num(i)>>

ParametersPool ==
  {Null}
  \cup {Dict(<<Entry(Key("file"), Str(s))>>) : s \in StringPool}
  \cup {Dict(<<Entry(Key("a"), Dict(<<Entry(Key("b"), Dict(<<Entry(Key("c"),
                 Dict(<<Entry(Key("d"), Str(s))>>))>>))>>))>>) : s \in NestPool}
  \cup {Dict(<<Entry(Key("items"), List(<<Text("keep"), Str(s), IntV(99)>>))>>) : s \in NestPool}
  \cup {Dict(<<Entry(Key("items"), Tuple(<<Text("keep"), Str(s), IntV(99)>>))>>) : s \in NestPool}
  \cup {Dict(<<Entry(<<Run("sp", BigBytes)>>, IntV(1))>>),
        Dict([i \in 1..ManyKeys |-> Entry(NumKey("key_", i), Str(<<Run("sp", 1000)>>))]),
        Dict([i \in 1..LongKeys |->
                Entry(<<Run("sp", 10000), Num(i)>>, List(<<IntV(i)>>))])}

ImageBlock ==
  Dict(<<Entry(Key("type"), Text("image")), Entry(Key("data"), Text("imgdata")),
         Entry(Key("mimeType"), Text("image/png"))>>)
AudioBlock ==
  Dict(<<Entry(Key("type"), Text("audio")), Entry(Key("data"), Text("audiodata")),
         Entry(Key("mimeType"), Text("audio/wav"))>>)
BlobResourceBlock ==
  Dict(<<Entry(Key("type"), Text("resource")),
         Entry(Key("resource"), Dict(<<Entry(Key("uri"), Text("file://image.png")),
                                       Entry(Key("blob"), Str(B64(BigBytes)))>>))>>)
TextResourceBlock ==
  Dict(<<Entry(Key("type"), Text("resource")),
         Entry(Key("resource"), Dict(<<Entry(Key("uri"), Text("file://readme.txt")),
                                       Entry(Key("text"), Text("This is a readme"))>>))>>)
BadResourceBlock ==
  Dict(<<Entry(Key("type"), Text("resource")), Entry(Key("resource"), Str(B64(BigBytes)))>>)
LinkBlock == Dict(<<Entry(Key("type"), Text("resource_link")), Entry(Key("uri"), Text("file://data.csv"))>>)
VideoBlock == Dict(<<Entry(Key("type"), Text("video")), Entry(Key("data"), Text("videodata"))>>)
UntypedBlock == Dict(<<Entry(Key("data"), Str(B64(BigBytes)))>>)
HelloBlock == TextBlock(Text("hello"))

\* Some lists response["content"] may hold; the last holds an entry that is
\* no mapping.
ContentPool ==
  { <<HelloBlock, ImageBlock, AudioBlock>>,
    <<BlobResourceBlock, TextResourceBlock, LinkBlock>>,
    <<VideoBlock, HelloBlock, UntypedBlock>>,
    <<AudioBlock, BadResourceBlock>>,
    <<HelloBlock, Str(B64(BigBytes))>> }

ResponsePool ==
  {Null, Dict(<<Entry(Key("isError"), Bool(FALSE))>>),
   Dict(<<Entry(Key("content"), Text("hello"))>>),
   Dict(<<Entry(Key("output"), Str(<<Run("sp", 50000)>>))>>),
   Dict(<<Entry(Key("content"), List(<<TextBlock(Text("ok"))>>)),
          Entry(Key("structured_content"),
                Dict(<<Entry(Key("nested"), Dict(<<Entry(Key("data"),
                       Str(B64(BigBytes) \o <<Run("eq", 2)>>))>>))>>))>>)}
  \cup {Dict(<<Entry(Key("content"), List(c))>>) : c \in ContentPool}

\* error and identify_data: both absent, or both small mappings
ErrorPool == {Null, Dict(<<Entry(Key("message"), Text("fail"))>>)}

EmptyHeap == [events |-> <<>>, dicts |-> <<>>]

\* _make_event(**overrides) of the tests
MakeEvent(parameters, response, error) ==
  NewEvent(EmptyHeap,
           [f \in {EventFields[i] : i \in 1..Len(EventFields)} |->
              CASE f = "event_type" -> Text("mcp:tools/call")
                [] f = "resource_name" -> Text("test_tool")
                [] f = "session_id" -> Text("test-session-id")
                [] f = "parameters" -> parameters
                [] f = "response" -> response
                [] f = "error" -> error
                [] f = "identify_data" -> error
                [] OTHER -> Null]).h

(* ---------------------------- the state machine ------------------------- *)

VARIABLES
  heap,          \* the Event and dict objects
  pc,            \* "idle": between calls; "loop": in truncate_event's loop; "done";
                 \* "sanitize_raised": sanitize_event raised to the pipeline
  cur,           \* the event the pipeline holds (the next stage's argument)
  sanitized,     \* sanitize_event's result so far, 0 before the call
  event,         \* truncate_event's argument
  depth, string_bytes, breadth, candidate,   \* truncate_event's locals
  ret,           \* truncate_event's result, 0 before it returns
  raised,        \* "no", or what was caught at lines 178-180
  cands,         \* the candidates produced, with the limits and size of each
  before,        \* the heap when the running or last call was entered
  input,         \* the heap as the caller built it: the event at address 1
  excs,          \* the error objects: excs[i] is the error with identity i
  cap,           \* capture_exception's argument, position, locals and result
  call,          \* a call of _truncate_string or _truncate_value: arguments and result
  tc,            \* a TraceContext: its session_traces, and what get_trace_id returned
  mw             \* a request in MCPCatMiddleware: position, event, what the caller sees

pipeline_vars == <<heap, pc, cur, sanitized, event, depth, string_bytes, breadth,
                   candidate, ret, raised, cands, before, input>>
exc_vars == <<excs, cap>>
call_vars == <<call>>
ext_vars == <<tc, mw>>
vars == <<pipeline_vars, exc_vars, call_vars, ext_vars>>

\* no error object, no capture, no call under way
NoErrors == <<>>
CapIdle == [pc |-> "none"]
NoCall == [fn |-> "none"]
\* no TraceContext in use, no request in the middleware
NoTraceContext == [calls |-> 0 - 1]
NoRequest == [pc |-> "none"]

\* a slip: the per-string limit in place of the event limit
FitsBudgetPerString(byte_size) == byte_size <= MAX_STRING_BYTES
\* lines 138 and 162
FitsBudget(byte_size) == byte_size <= MAX_EVENT_BYTES

Init ==
  /\ \E p \in ParametersPool, r \in ResponsePool, e \in ErrorPool :
       heap = MakeEvent(p, r, e)
  /\ input = heap
  /\ pc = "idle"
  /\ cur = 1
  /\ sanitized = 0
  /\ event = 0
  /\ depth = 0 /\ string_bytes = 0 /\ breadth = 0 /\ candidate = 0
  /\ ret = 0
  /\ raised = "no"
  /\ cands = <<>>
  /\ before = EmptyHeap
  /\ excs = NoErrors /\ cap = CapIdle /\ call = NoCall
  /\ tc = NoTraceContext /\ mw = NoRequest

\* The entries of response["content"] whose copying or classifying can raise
\* for a reason outside the model (an object that cannot be copied, a type
\* whose comparison or string conversion raises): any of them.
FailingItems(h, a) ==
  LET response == FieldValue(h, a, "response")
  IN IF TypeOf(response) = "dict" /\ TypeOf(Get(Of(response), Key("content"))) = "list"
     THEN 1..Len(Of(Get(Of(response), Key("content"))))
     ELSE {}

\* The pipeline's first stage: cur = sanitize_event(cur).  failing = 0: no
\* item raises.  Otherwise the exception leaves deepcopy (line 126) or
\* _sanitize_content_block (lines 98-100); no frame of sanitization.py
\* handles it, so it leaves sanitize_event and nothing is returned.
SanitizeEvent ==
  /\ pc = "idle" /\ sanitized = 0
  /\ \E failing \in {0} \cup FailingItems(heap, cur) :
       IF failing = 0
       THEN /\ \E r \in {sanitize_event(heap, cur)} :
                  /\ heap' = r.h
                  /\ cur' = r.a
                  /\ sanitized' = r.a
            /\ UNCHANGED pc
       ELSE /\ pc' = "sanitize_raised"
            /\ UNCHANGED <<heap, cur, sanitized>>
  /\ before' = heap
  /\ UNCHANGED <<event, depth, string_bytes, breadth, candidate, ret, raised, cands, input>>
  /\ UNCHANGED <<exc_vars, call_vars, ext_vars>>

\* truncate_event(cur), lines 135-150: the fast path, or the loop's locals
TruncateEnter ==
  /\ pc = "idle"
  /\ event' = cur
  /\ before' = heap
  /\ IF FitsBudget(model_dump_json_bytes(heap, cur))
     THEN /\ ret' = cur
          /\ pc' = "done"
          /\ UNCHANGED <<depth, string_bytes, breadth>>
     ELSE /\ pc' = "loop"
          /\ depth' = MAX_DEPTH
          /\ string_bytes' = MAX_STRING_BYTES
          /\ breadth' = MAX_BREADTH
          /\ UNCHANGED ret
  /\ UNCHANGED <<heap, cur, sanitized, candidate, raised, cands, input>>
  /\ UNCHANGED <<exc_vars, call_vars, ext_vars>>

\* a slip: the handler returns the last candidate when there is one
OnExceptionLastCandidate(ev, cand) == IF cand # 0 THEN cand ELSE ev
\* what the handler of lines 178-180 returns
OnException(ev, cand) == ev

\* a slip: the depth limit has no floor
TightenDepthNoFloor(d) == d - 1
\* lines 169-170
TightenDepth(d) == IF d > MIN_DEPTH THEN d - 1 ELSE d
\* a slip: the string limit stops at its floor of 1
HalveStringBytesFloorOne(s) == IF s > 1 THEN s \div 2 ELSE s
\* line 171
HalveStringBytes(s) == s \div 2
\* lines 173-174, d the depth limit lines 169-170 left
TightenBreadth(d, b) == IF d <= MIN_DEPTH /\ b > BREADTH_FLOOR THEN b \div 2 ELSE b

\* a slip: the next attempt starts from the previous candidate
AttemptSourcePrevious(ev, cand) == IF cand # 0 THEN cand ELSE ev
\* line 155: the object whose dump an attempt normalizes
AttemptSource(ev, cand) == ev

\* One pass of the loop of lines 152-174.  fault: _truncate_value or
\* model_validate raises for a reason outside the model (the tests patch
\* _truncate_value to raise).
TruncateAttempt ==
  /\ pc = "loop" /\ string_bytes >= 1
  /\ \E fault \in BOOLEAN :
     \E truncated_dict \in {_truncate_value(model_dump(heap, AttemptSource(event, candidate)),
                                              depth, string_bytes, breadth, 0)} :
     \E v \in {model_validate(heap, truncated_dict)} :
     \E result_bytes \in {IF v.ok THEN model_dump_json_bytes(v.h, v.a) ELSE 0} :
       IF fault \/ ~v.ok
       THEN /\ raised' = IF fault THEN "fault" ELSE "validation"
            /\ ret' = OnException(event, candidate)
            /\ pc' = "done"
            /\ UNCHANGED <<heap, depth, string_bytes, breadth, candidate, cands>>
       ELSE /\ heap' = v.h
            /\ candidate' = v.a
            /\ cands' = Append(cands, [a |-> v.a, depth |-> depth,
                                       string_bytes |-> string_bytes,
                                       breadth |-> breadth, bytes |-> result_bytes])
            /\ IF FitsBudget(result_bytes)
               THEN /\ ret' = v.a
                    /\ pc' = "done"
                    /\ UNCHANGED <<depth, string_bytes, breadth>>
               ELSE /\ depth' = TightenDepth(depth)
                    /\ string_bytes' = HalveStringBytes(string_bytes)
                    /\ breadth' = TightenBreadth(TightenDepth(depth), breadth)
                    /\ UNCHANGED <<ret, pc>>
            /\ UNCHANGED raised
  /\ UNCHANGED <<cur, sanitized, event, before, input>>
  /\ UNCHANGED <<exc_vars, call_vars, ext_vars>>

\* line 176: the loop ended with no candidate that fits
TruncateExhausted ==
  /\ pc = "loop" /\ string_bytes < 1
  /\ ret' = candidate
  /\ pc' = "done"
  /\ UNCHANGED <<heap, cur, sanitized, event, depth, string_bytes, breadth, candidate,
                 raised, cands, before, input>>
  /\ UNCHANGED <<exc_vars, call_vars, ext_vars>>

Next == SanitizeEvent \/ TruncateEnter \/ TruncateAttempt \/ TruncateExhausted

Spec == Init /\ [][Next]_vars

(* ------------------------------ exceptions.py --------------------------- *)

MAX_EXCEPTION_CHAIN_DEPTH == 10

\* An error object excs[i]: __cause__ and __context__ hold 0 (None), the
\* identity i >= 1 of an error, or a negative number, a value that is no
\* BaseException (an attribute a subclass overrides); suppress is
\* __suppress_context__; str_ok tells whether str(e) returns or raises.
Error(cause, context, suppress, str_ok) ==
  [cause |-> cause, context |-> context, suppress |-> suppress, str_ok |-> str_ok]
IsBaseException(x) == x >= 1

\* a slip: the cause when there is one, the context otherwise, as the
\* interpreter prints tracebacks
NextLinkCauseFirst(e) == IF e.cause # 0 THEN e.cause ELSE e.context
\* lines 259-262: the link unwrap_exception_chain follows from an error
NextLink(e) == IF e.suppress THEN e.cause ELSE e.context

\* a slip: one link too many
WithinChainDepthInclusive(d) == d <= MAX_EXCEPTION_CHAIN_DEPTH
\* line 258, the loop's depth test
WithinChainDepth(d) == d < MAX_EXCEPTION_CHAIN_DEPTH

\* a slip: the identities are recorded but never looked up
NeverSeen(exc_id, seen_ids) == FALSE
\* line 268
AlreadySeen(exc_id, seen_ids) == exc_id \in seen_ids

\* A raised value that is no error: <<kind, str_ok>>, kind "none" (None),
\* "str", "num" (int, float, bool), "json" (json.dumps serializes it), "obj"
\* (json.dumps raises; str(value) returns iff str_ok).
\* stringify_non_exception(value): [ok, message]; ok = FALSE when it raises.
stringify_non_exception(value) ==
  CASE value[1] = "none" -> [ok |-> TRUE, message |-> <<"None", 0>>]
    [] value[1] = "str" -> [ok |-> TRUE, message |-> <<"value", 0>>]
    [] value[1] = "num" -> [ok |-> TRUE, message |-> <<"str(value)", 0>>]
    [] value[1] = "json" -> [ok |-> TRUE, message |-> <<"json.dumps(value)", 0>>]
    [] OTHER -> IF value[2] THEN [ok |-> TRUE, message |-> <<"str(value)", 0>>]
                ELSE [ok |-> FALSE, message |-> <<"", 0>>]

\* An entry of a failure result's content: "text" (type "text", text a
\* string), "textnum" (type "text", text no string), "image" (another type),
\* "bare" (no type attribute: a number, None), "raising" (reading an attribute
\* raises).  capture_call_tool_result_error: the message, the positions of the
\* joined texts or "Unknown error" (join raises on a text that is no string).
capture_call_tool_result_error(content) ==
  LET text_parts == {i \in 1..Len(content) : content[i] \in {"text", "textnum"}}
      failed == \E i \in 1..Len(content) : content[i] \in {"textnum", "raising"}
  IN [message |-> IF failed \/ text_parts = {} THEN <<"Unknown error", {}>>
                  ELSE <<"joined", text_parts>>,
      type |-> "None", chained_errors |-> <<>>]

\* an entry of the chain: lines 273-278 for a value, 281-284 for an error
ChainEntry(x) == [message |-> x, type |-> IF IsBaseException(x) THEN "error" ELSE "None"]

\* longest chain of the linear inputs (the test builds 15 causes)
MaxChain == 15

\* n errors linked one after the other from error 1, raise ... from ... style
\* (byCause) or implicit context
LinearChain(n, byCause) ==
  [i \in 1..(n + 1) |->
     LET nxt == IF i <= n THEN i + 1 ELSE 0
     IN IF byCause THEN Error(nxt, 0, TRUE, TRUE) ELSE Error(0, nxt, FALSE, TRUE)]

\* a tail of t errors after error 1 that runs into a ring of k errors
Lasso(t, k) ==
  [i \in 1..(t + k) |-> Error(IF i < t + k THEN i + 1 ELSE t + 1, 0, TRUE, TRUE)]

TwoErrorLinks == {0, 1, 2, 0 - 1}

ErrorGraphs ==
  {LinearChain(n, b) : n \in 0..MaxChain, b \in BOOLEAN}
  \cup {Lasso(t, k) : t \in 0..2, k \in 1..3}
  \cup {[LinearChain(n, TRUE) EXCEPT ![n + 1].cause = 0 - 1] : n \in {0, 3, 9, 10}}
  \cup {[LinearChain(5, TRUE) EXCEPT ![j].str_ok = FALSE] : j \in {1, 3}}
  \cup {<<Error(2, 0, TRUE, TRUE), Error(0, 3, TRUE, TRUE), Error(0, 0, FALSE, TRUE)>>,
        <<Error(3, 2, FALSE, TRUE), Error(0 - 1, 3, TRUE, TRUE), Error(0, 0, FALSE, TRUE)>>}
  \cup {<<Error(c1, x1, s1, TRUE), Error(c2, x2, s2, k2)>> :
          c1 \in TwoErrorLinks, x1 \in TwoErrorLinks, s1 \in BOOLEAN,
          c2 \in TwoErrorLinks, x2 \in {0, 1}, s2 \in BOOLEAN, k2 \in BOOLEAN}

ContentPoolOfResults ==
  {<<>>, <<"text">>, <<"text", "image", "text">>, <<"text", "textnum">>,
   <<"bare", "text">>, <<"raising", "text">>, <<"image">>}

RaisedValues ==
  {<<"none", TRUE>>, <<"str", TRUE>>, <<"num", TRUE>>, <<"json", TRUE>>,
   <<"obj", TRUE>>, <<"obj", FALSE>>}
  \cup {<<"result", c>> : c \in ContentPoolOfResults}

\* the pipeline of sanitize_event and truncate_event is not running
PipelineOff ==
  /\ heap = EmptyHeap /\ input = EmptyHeap /\ before = EmptyHeap
  /\ pc = "off" /\ cur = 0 /\ sanitized = 0 /\ event = 0
  /\ depth = 0 /\ string_bytes = 0 /\ breadth = 0 /\ candidate = 0
  /\ ret = 0 /\ raised = "no" /\ cands = <<>>

NoData == [message |-> <<"", 0>>, type |-> "None", chained_errors |-> <<>>]

\* capture_exception(exc) is about to run; the locals are unwrap_exception_chain's
CapStart(exc) ==
  [pc |-> "start", exc |-> exc, error_data |-> NoData,
   chain |-> <<>>, seen_ids |-> {}, current |-> 0, depth |-> 0]

InitExc ==
  /\ PipelineOff /\ call = NoCall /\ tc = NoTraceContext /\ mw = NoRequest
  /\ \/ \E g \in ErrorGraphs : excs = g /\ cap = CapStart(<<"error", 1>>)
     \/ \E v \in RaisedValues : excs = NoErrors /\ cap = CapStart(v)

\* capture_exception, lines 40-58, and unwrap_exception_chain's lines 251-256
CaptureEnter ==
  /\ cap.pc = "start"
  /\ cap' =
       CASE cap.exc[1] = "result" ->
              [cap EXCEPT !.pc = "done",
                          !.error_data = capture_call_tool_result_error(cap.exc[2])]
         [] cap.exc[1] = "error" ->
              IF excs[cap.exc[2]].str_ok
              THEN [cap EXCEPT !.pc = "unwrap",
                               !.error_data = [message |-> <<"str(exc)", cap.exc[2]>>,
                                               type |-> "error", chained_errors |-> <<>>],
                               !.seen_ids = {cap.exc[2]},
                               !.current = cap.exc[2]]
              ELSE [cap EXCEPT !.pc = "raised"]
         [] OTHER ->
              IF stringify_non_exception(cap.exc).ok
              THEN [cap EXCEPT !.pc = "done",
                               !.error_data = [message |-> stringify_non_exception(cap.exc).message,
                                               type |-> "None", chained_errors |-> <<>>]]
              ELSE [cap EXCEPT !.pc = "raised"]
  /\ UNCHANGED <<excs, pipeline_vars, call_vars, ext_vars>>

\* one pass of the loop of lines 258-292
UnwrapStep ==
  /\ cap.pc = "unwrap"
  /\ cap.current # 0 /\ WithinChainDepth(cap.depth)
  /\ LET next_exc == NextLink(excs[cap.current])
     IN cap' =
          IF next_exc = 0 \/ AlreadySeen(next_exc, cap.seen_ids)
          THEN [cap EXCEPT !.pc = "unwound"]
          ELSE IF ~IsBaseException(next_exc)
          THEN [cap EXCEPT !.pc = "unwound",
                           !.seen_ids = @ \cup {next_exc},
                           !.chain = Append(@, ChainEntry(next_exc))]
          ELSE IF ~excs[next_exc].str_ok
          THEN [cap EXCEPT !.pc = "raised", !.seen_ids = @ \cup {next_exc}]
          ELSE [cap EXCEPT !.seen_ids = @ \cup {next_exc},
                           !.chain = Append(@, ChainEntry(next_exc)),
                           !.current = next_exc,
                           !.depth = @ + 1]
  /\ UNCHANGED <<excs, pipeline_vars, call_vars, ext_vars>>

\* the loop's test of line 258 fails
UnwrapExit ==
  /\ cap.pc = "unwrap"
  /\ ~(cap.current # 0 /\ WithinChainDepth(cap.depth))
  /\ cap' = [cap EXCEPT !.pc = "unwound"]
  /\ UNCHANGED <<excs, pipeline_vars, call_vars, ext_vars>>

\* line 297, then capture_exception's lines 60-64
CaptureReturn ==
  /\ cap.pc = "unwound"
  /\ cap' = [cap EXCEPT !.pc = "done", !.error_data.chained_errors = cap.chain]
  /\ UNCHANGED <<excs, pipeline_vars, call_vars, ext_vars>>

NextExc == CaptureEnter \/ UnwrapStep \/ UnwrapExit \/ CaptureReturn

SpecExc == InitExc /\ [][NextExc]_vars

\* capture_exception runs to its end once called: it is one synchronous call
FairSpecExc == SpecExc /\ WF_vars(NextExc)

(* ------------- truncation.py: values with identity, _seen -------------- *)

\* A composite that has an identity of its own: objs[i] is the dict or list
\* with identity i, and Ref(i) a reference to it, so that one object can sit
\* at several positions or be its own descendant.  A Dict or List written
\* inline is an object referenced from that one position only.
Ref(i) == <<"ref", i>>
IsObject(val) == TypeOf(val) = "ref" \/ IsComposite(val)

CircularMarker == Text("[circular reference]")

\* a slip: the identities are recorded but never looked up
NeverOnPath(value, seen) == FALSE
\* line 61
OnPath(value, seen) == TypeOf(value) = "ref" /\ Of(value) \in seen
\* line 64
Enter(seen, value) == IF TypeOf(value) = "ref" THEN seen \cup {Of(value)} ELSE seen
\* a slip: the finally clause missing
NoDiscard(seen, value) == seen
\* lines 112-113
Discard(seen, value) == IF TypeOf(value) = "ref" THEN seen \ {Of(value)} ELSE seen

\* a slip: one level too deep
AtDepthLimitStrict(d, md) == d > md
\* line 66: at_depth_limit = _depth >= max_depth
AtDepthLimit(d, md) == d >= md

\* F(x), x evaluated once
Bind(x, F(_)) == CHOOSE y \in {F(v) : v \in {x}} : TRUE

\* _truncate_value with its _seen set, which every call on the way shares and
\* changes: the result is <<returned value, _seen when the call returns>>.
RECURSIVE _truncate_value_seen(_, _, _, _, _, _, _)
RECURSIVE TruncateDictItems(_, _, _, _, _, _, _, _, _)
RECURSIVE TruncateListItems(_, _, _, _, _, _, _, _, _)

\* the loop of lines 71-85 from the i-th item on, result being the dict so far
TruncateDictItems(objs, items, i, md, ms, mb, d, seen, result) ==
  IF i > Len(items) THEN <<Dict(result), seen>>
  ELSE IF i - 1 >= mb
  THEN <<Dict(DictSet(result, Key("__truncated__"), MoreItemsMarker(Len(items) - mb))), seen>>
  ELSE IF AtDepthLimit(d, md) /\ IsObject(items[i].v)
  THEN TruncateDictItems(objs, items, i + 1, md, ms, mb, d, seen,
                         DictSet(result, items[i].k, DepthMarker(md)))
  ELSE Bind(_truncate_value_seen(objs, items[i].v, md, ms, mb, d + 1, seen),
            LAMBDA r : TruncateDictItems(objs, items, i + 1, md, ms, mb, d, r[2],
                                         DictSet(result, items[i].k, r[1])))

\* the comprehension of lines 91-99 from the i-th item on, then lines 100-105
TruncateListItems(objs, items, i, md, ms, mb, d, seen, result) ==
  IF i > Len(items) \/ i - 1 >= mb
  THEN <<List(IF Len(items) > mb
              THEN Append(result, MoreItemsMarker(Len(items) - mb))
              ELSE result), seen>>
  ELSE Bind(_truncate_value_seen(objs, items[i], md, ms, mb, d + 1, seen),
            LAMBDA r : TruncateListItems(objs, items, i + 1, md, ms, mb, d, r[2],
                                         Append(result, r[1])))

_truncate_value_seen(objs, value, md, ms, mb, d, seen) ==
  CASE TypeOf(value) \in {"null", "bool", "int"} -> <<value, seen>>
    [] TypeOf(value) = "str" -> <<Str(_truncate_string(Of(value), ms)), seen>>
    [] OTHER ->
         IF OnPath(value, seen) THEN <<CircularMarker, seen>>
         ELSE LET obj == IF TypeOf(value) = "ref" THEN objs[Of(value)] ELSE value
              IN Bind(IF TypeOf(obj) = "dict"
                      THEN TruncateDictItems(objs, Of(obj), 1, md, ms, mb, d,
                                             Enter(seen, value), <<>>)
                      ELSE IF AtDepthLimit(d, md) THEN <<DepthMarker(md), Enter(seen, value)>>
                      ELSE TruncateListItems(objs, Of(obj), 1, md, ms, mb, d,
                                             Enter(seen, value), <<>>),
                      LAMBDA r : <<r[1], Discard(r[2], value)>>)

(* --------------------- calls of the value functions -------------------- *)

\* deepest chain of nested mappings, most entries of one mapping or sequence
MaxNest == 4
MaxWide == 5

RECURSIVE NestedChain(_)
NestedChain(k) ==
  IF k = 0 THEN Text("leaf") ELSE Dict(<<Entry(Key("nested"), NestedChain(k - 1))>>)

MixedDict ==
  Dict(<<Entry(Key("k"), IntV(1)), Entry(Key("s"), Text("text")),
         Entry(Key("n"), Dict(<<Entry(Key("z"), IntV(1))>>)),
         Entry(Key("l"), List(<<IntV(1), IntV(2)>>)),
         Entry(Key("t"), Bool(TRUE)), Entry(Key("none"), Null)>>)
MixedList ==
  List(<<IntV(1), Text("s"), List(<<IntV(2)>>), Dict(<<Entry(Key("a"), IntV(1))>>), Null>>)

RECURSIVE Wrapped(_, _)
Wrapped(val, k) == IF k = 0 THEN val ELSE Dict(<<Entry(Key("w"), Wrapped(val, k - 1))>>)

WideDict(n) == Dict([i \in 1..n |-> Entry(NumKey("k", i), IntV(i))])
\* the same with "__truncated__" as the key of its j-th entry
WideDictMarkerKey(n, j) ==
  Dict([i \in 1..n |-> Entry(IF i = j THEN Key("__truncated__") ELSE NumKey("k", i), IntV(i))])
WideList(n) == List([i \in 1..n |-> IntV(i)])

Tree(val) == [objs |-> <<>>, root |-> val]

SelfDict ==
  [objs |-> <<Dict(<<Entry(Key("key"), Text("value")), Entry(Key("self"), Ref(1))>>)>>,
   root |-> Ref(1)]
SharedDict ==
  [objs |-> <<Dict(<<Entry(Key("a"), Ref(2)), Entry(Key("b"), Ref(2))>>),
              Dict(<<Entry(Key("data"), Text("hello"))>>)>>,
   root |-> Ref(1)]
TwoCycleDict ==
  [objs |-> <<Dict(<<Entry(Key("x"), Ref(2))>>),
              Dict(<<Entry(Key("y"), Ref(1)), Entry(Key("n"), IntV(1))>>)>>,
   root |-> Ref(1)]
SelfList == [objs |-> <<List(<<IntV(1), Ref(1)>>)>>, root |-> Ref(1)]
DeepSelfDict ==
  [objs |-> <<Dict(<<Entry(Key("a"), Ref(2))>>),
              Dict(<<Entry(Key("self"), Ref(2)), Entry(Key("k"), Text("v"))>>)>>,
   root |-> Ref(1)]
SharedList ==
  [objs |-> <<List(<<Ref(2), Ref(2), Dict(<<Entry(Key("in"), Ref(2))>>)>>),
              List(<<Text("x")>>)>>,
   root |-> Ref(1)]
DictListCycle ==
  [objs |-> <<Dict(<<Entry(Key("l"), Ref(2))>>), List(<<Ref(1), Text("s")>>)>>,
   root |-> Ref(1)]
SharedTwice ==
  [objs |-> <<Dict(<<Entry(Key("a"), Ref(2)), Entry(Key("b"), Ref(3))>>),
              Dict(<<Entry(Key("c"), Ref(3))>>),
              Dict(<<Entry(Key("data"), Text("hello"))>>)>>,
   root |-> Ref(1)]

ValuePool ==
  {SelfDict, SharedDict, TwoCycleDict, SelfList, DeepSelfDict, SharedList,
   DictListCycle, SharedTwice}
  \cup {Tree(NestedChain(k)) : k \in 0..MaxNest}
  \cup {Tree(Wrapped(MixedDict, k)) : k \in 0..2}
  \cup {Tree(Wrapped(MixedList, k)) : k \in 0..2}
  \cup {Tree(List(<<MixedList, IntV(7)>>)),
        Tree(Dict(<<Entry(Key("s"), Str(<<Run("sp", 100)>>))>>))}
  \cup {Tree(WideDict(n)) : n \in 0..MaxWide}
  \cup {Tree(WideList(n)) : n \in 0..MaxWide}
  \cup {Tree(WideDictMarkerKey(n, j)) : n \in {3, MaxWide}, j \in 1..3}

DepthLimits == {0, 1, 2, 3, MAX_DEPTH}
BreadthLimits == {1, 2, 3, MAX_BREADTH}
StringLimits == {1, 2, 5, 42, 43, 44, 45, 46, 47, 50, 60, 100, MAX_STRING_BYTES}

\* string limits of the calls of _truncate_value: below the markers' sizes,
\* above them, the default
ValueStringLimits == {20, 50, MAX_STRING_BYTES}

StringCallPool ==
  { <<Lit("hello")>>, <<Run("sp", 50)>>, <<Run("sp", 51)>>, <<Run("sp", 100)>>,
    <<Run("sp", MAX_STRING_BYTES)>>, <<Run("sp", MAX_STRING_BYTES + 1)>>,
    <<Run("sp", MAX_STRING_BYTES + 500)>>, <<Run("u4", 2560)>>, <<Run("u4", 2561)>>,
    <<Run("u4", 13)>>, <<Run("sp", 41), Run("u4", 5)>>, <<Run("sp", 3), Run("u4", 30)>> }

\* a call about to run: the arguments, no result yet
Call(fn, objs, value, md, ms, mb) ==
  [fn |-> fn, objs |-> objs, value |-> value, max_depth |-> md,
   max_string_bytes |-> ms, max_breadth |-> mb, out |-> Null, done |-> FALSE,
   out2 |-> Null, done2 |-> FALSE]

InitCall ==
  /\ PipelineOff /\ excs = NoErrors /\ cap = CapIdle
  /\ tc = NoTraceContext /\ mw = NoRequest
  /\ \/ \E str \in StringCallPool, ms \in StringLimits :
          call = Call("_truncate_string", <<>>, Str(str), MAX_DEPTH, ms, MAX_BREADTH)
     \/ \E v \in ValuePool, md \in DepthLimits, mb \in BreadthLimits, ms \in ValueStringLimits :
          call = Call("_truncate_value", v.objs, v.root, md, ms, mb)

\* _truncate_string(value, max_bytes=max_string_bytes)
CallTruncateString ==
  /\ call.fn = "_truncate_string" /\ ~call.done
  /\ call' = [call EXCEPT !.out = Str(_truncate_string(Of(call.value), call.max_string_bytes)),
                          !.done = TRUE]
  /\ UNCHANGED <<pipeline_vars, exc_vars, ext_vars>>

\* _truncate_value(value, max_depth=.., max_string_bytes=.., max_breadth=..)
CallTruncateValue ==
  /\ call.fn = "_truncate_value" /\ ~call.done
  /\ call' = [call EXCEPT !.out = _truncate_value_seen(call.objs, call.value, call.max_depth,
                                                       call.max_string_bytes, call.max_breadth,
                                                       0, {})[1],
                          !.done = TRUE]
  /\ UNCHANGED <<pipeline_vars, exc_vars, ext_vars>>

\* _truncate_value(out, ...) with the same limits, out the result of the call
\* before: a second pass over a result
CallTruncateValueAgain ==
  /\ call.fn = "_truncate_value" /\ call.done /\ ~call.done2
  /\ call' = [call EXCEPT !.out2 = _truncate_value_seen(<<>>, call.out, call.max_depth,
                                                        call.max_string_bytes, call.max_breadth,
                                                        0, {})[1],
                          !.done2 = TRUE]
  /\ UNCHANGED <<pipeline_vars, exc_vars, ext_vars>>

NextCall == CallTruncateString \/ CallTruncateValue \/ CallTruncateValueAgain

SpecCall == InitCall /\ [][NextCall]_vars

\* a call that was made runs: it is synchronous
FairSpecCall == SpecCall /\ WF_vars(NextCall)

(* ---------------------- exporters/trace_context.py ---------------------- *)

\* calls made on the TraceContext
MaxTraceCalls == 5
\* the values random_hex(32) can return: any of them at each call
MaxHexIds == 2
HexIds == 1..MaxHexIds

\* clear_old_sessions' default of max_sessions
DEFAULT_MAX_SESSIONS == 1000

\* session ids a caller passes: "" stands for None and the empty string
SessionIds == {"", "s1", "s2", "s3"}
MaxSessionsArgs == {0, 1, 2, 3, DEFAULT_MAX_SESSIONS}

\* session_traces is the dict in insertion order, <<session_id, trace_id>>;
\* returned is get_trace_id's argument and result at each of its calls
NewTraceContext == [calls |-> 0, session_traces |-> <<>>, returned |-> <<>>]

HasSession(session_traces, session_id) ==
  \E i \in 1..Len(session_traces) : session_traces[i][1] = session_id
TraceOf(session_traces, session_id) ==
  session_traces[CHOOSE i \in 1..Len(session_traces) : session_traces[i][1] = session_id][2]

\* lines 68-73: what clear_old_sessions leaves of the dict
clear_old_sessions(session_traces, max_sessions) ==
  IF Len(session_traces) > max_sessions
  THEN LET to_remove == Len(session_traces) - (max_sessions \div 2)
       IN SubSeq(session_traces, to_remove + 1, Len(session_traces))
  ELSE session_traces

InitTrace ==
  /\ PipelineOff /\ excs = NoErrors /\ cap = CapIdle /\ call = NoCall
  /\ mw = NoRequest
  /\ tc = NewTraceContext

\* get_trace_id(session_id), lines 27-35
GetTraceId ==
  /\ tc.calls >= 0 /\ tc.calls < MaxTraceCalls
  /\ \E session_id \in SessionIds, random_hex \in HexIds :
       LET known == session_id # "" /\ HasSession(tc.session_traces, session_id)
           result == IF known THEN TraceOf(tc.session_traces, session_id) ELSE random_hex
       IN tc' = [calls |-> tc.calls + 1,
                 session_traces |-> IF session_id = "" \/ known THEN tc.session_traces
                                    ELSE Append(tc.session_traces, <<session_id, random_hex>>),
                 returned |-> Append(tc.returned, [session_id |-> session_id,
                                                   trace_id |-> result])]
  /\ UNCHANGED <<pipeline_vars, exc_vars, call_vars, mw>>

\* clear_old_sessions(max_sessions), lines 68-73
ClearOldSessions ==
  /\ tc.calls >= 0 /\ tc.calls < MaxTraceCalls
  /\ \E max_sessions \in MaxSessionsArgs :
       tc' = [tc EXCEPT !.calls = @ + 1,
                        !.session_traces = clear_old_sessions(@, max_sessions)]
  /\ UNCHANGED <<pipeline_vars, exc_vars, call_vars, mw>>

NextTrace == GetTraceId \/ ClearOldSessions

SpecTrace == InitTrace /\ [][NextTrace]_vars

(* ----------------- overrides/community_v3/middleware.py ----------------- *)

Methods == {"initialize", "tools/call", "tools/list"}

\* What `await call_next(context)` does.  <<"return", "ok">>; for tools/call,
\* <<"return", "is_error">>, a result whose is_error is set; <<"raise", is_exception,
\* str_ok>>: is_exception tells whether the exception is an instance of
\* Exception (asyncio.CancelledError, KeyboardInterrupt and SystemExit are
\* not), str_ok whether str(e) returns.
HandlerOutcomes(method) ==
  {<<"return", "ok">>}
  \cup (IF method = "tools/call" THEN {<<"return", "is_error">>} ELSE {})
  \cup {<<"raise", is_exception, str_ok>> : is_exception \in BOOLEAN, str_ok \in BOOLEAN}

\* UnredactedEvent(...) of lines 114-119, 176-183, 249-254
NewRequestEvent(method) ==
  [event_type |-> method, is_error |-> "None", error |-> "None", response |-> "None"]

\* `except Exception`, lines 125, 212, 269: the clause takes the exception
ExceptClauseTakes(outcome) == outcome[2]

\* capture_exception(e) for an error e: exceptions.py line 51 calls str(e)
CaptureRaises(outcome) == ~outcome[3]

\* A request enters __call__: the position "start"; outcome is the
\* handler's, pending what the try statement is about to give the caller.
NewRequest(method, enable_tracing) ==
  [pc |-> "start", method |-> method, enable_tracing |-> enable_tracing,
   event |-> NewRequestEvent(method), outcome |-> <<"none">>,
   pending |-> <<"none">>, published |-> <<>>, caller |-> <<"none">>]

InitMw ==
  /\ PipelineOff /\ excs = NoErrors /\ cap = CapIdle /\ call = NoCall
  /\ tc = NoTraceContext
  /\ \E method \in Methods, enable_tracing \in BOOLEAN : mw = NewRequest(method, enable_tracing)

\* __call__ (lines 66-77) and the handler's statements before its try: the
\* event is built.  Building it can raise (params.model_dump(), the event's
\* validation): the request then never reaches the downstream handler.
MwEnter ==
  /\ mw.pc = "start"
  /\ \E built \in BOOLEAN :
       mw' = IF built THEN [mw EXCEPT !.pc = "awaiting"]
             ELSE [mw EXCEPT !.pc = "done", !.caller = <<"raise", "other">>]
  /\ UNCHANGED <<pipeline_vars, exc_vars, call_vars, tc>>

\* await call_next(context), lines 122, 200, 257
MwHandler ==
  /\ mw.pc = "awaiting"
  /\ \E outcome \in HandlerOutcomes(mw.method) :
       mw' = [mw EXCEPT !.pc = "handled", !.outcome = outcome]
  /\ UNCHANGED <<pipeline_vars, exc_vars, call_vars, tc>>

\* The rest of the try block and the except clause: lines 123-128, 202-217,
\* 258-272.  serialized = FALSE: a statement after the await raises an
\* Exception (result.model_dump(), _serialize_result, list(...)), which the
\* except clause takes as it takes the handler's.
MwTryExcept ==
  /\ mw.pc = "handled"
  /\ \E serialized \in BOOLEAN :
       mw' =
         IF mw.outcome[1] = "return"
         THEN IF serialized
              THEN [mw EXCEPT !.pc = "finally",
                              !.event.is_error =
                                 IF mw.method # "tools/call" THEN @
                                 ELSE IF mw.outcome[2] = "is_error" THEN "True" ELSE "False",
                              !.event.error =
                                 IF mw.method = "tools/call" /\ mw.outcome[2] = "is_error"
                                 THEN "captured" ELSE @,
                              !.event.response = "set",
                              !.pending = <<"return", mw.outcome[2]>>]
              ELSE [mw EXCEPT !.pc = "finally",
                              !.event.is_error = "True",
                              !.event.error = "captured",
                              !.pending = <<"raise", "other">>]
         ELSE IF ~ExceptClauseTakes(mw.outcome)
         THEN [mw EXCEPT !.pc = "finally", !.pending = <<"raise", "handler">>]
         ELSE IF CaptureRaises(mw.outcome)
         \* str(e) raises: in on_call_tool at line 213, before is_error is
         \* set; in the other two inside capture_exception, after it
         THEN [mw EXCEPT !.pc = "finally",
                         !.event.is_error = IF mw.method = "tools/call" THEN @ ELSE "True",
                         !.pending = <<"raise", "other">>]
         ELSE [mw EXCEPT !.pc = "finally",
                         !.event.is_error = "True",
                         !.event.error = "captured",
                         !.pending = <<"raise", "handler">>]
  /\ UNCHANGED <<pipeline_vars, exc_vars, call_vars, tc>>

\* finally: _publish_event, lines 302-315, then the return or the raise.
\* accepted = FALSE: event_queue.publish_event raises an Exception.
MwFinally ==
  /\ mw.pc = "finally"
  /\ \E accepted \in BOOLEAN :
       mw' = [mw EXCEPT !.pc = "done",
                        !.published = IF mw.enable_tracing
                                      THEN Append(@, [event |-> mw.event, accepted |-> accepted])
                                      ELSE @,
                        !.caller = mw.pending]
  /\ UNCHANGED <<pipeline_vars, exc_vars, call_vars, tc>>

NextMw == MwEnter \/ MwHandler \/ MwTryExcept \/ MwFinally

SpecMw == InitMw /\ [][NextMw]_vars

(* ------------------------------ the claims ------------------------------ *)

TruncateReturned == pc = "done" /\ ret # 0
Containers(h, a) == {h.events[a][f] : f \in MappingSet} \ {0}
\* the input's and the sanitized event's value of a mapping field
InputField(f) == FieldValue(input, 1, f)
SanitizedField(f) == FieldValue(heap, sanitized, f)

\* C1: whenever truncate_event returns without having caught an exception, the
\* event it returns serializes to at most MAX_EVENT_BYTES bytes.
C1_ReturnedEventFits ==
  (TruncateReturned /\ raised = "no") => model_dump_json_bytes(heap, ret) <= MAX_EVENT_BYTES

\* C2: an event that serializes to at most MAX_EVENT_BYTES is returned as the
\* same object, with no normalization attempt made and nothing allocated.
C2_FastPathIdentity ==
  (event # 0 /\ model_dump_json_bytes(before, event) <= MAX_EVENT_BYTES)
    => /\ pc = "done" /\ ret = event
       /\ cands = <<>> /\ raised = "no" /\ candidate = 0
       /\ heap = before

\* an event above the per-string limit but within the event limit came back
\* as the object given
C2_Witness ==
  /\ TruncateReturned /\ ret = event /\ raised = "no"
  /\ model_dump_json_bytes(heap, event) <= MAX_EVENT_BYTES
  /\ model_dump_json_bytes(heap, event) > MAX_STRING_BYTES

\* C3: when an attempt raises, truncate_event returns (it does not raise) the
\* very event it was given, and none of the candidates produced before.
C3_FailureReturnsOriginal ==
  raised # "no"
    => /\ pc = "done" /\ ret = event
       /\ \A i \in 1..Len(cands) : cands[i].a # ret

\* an attempt raised after two candidates had been produced
C3_Witness ==
  /\ raised # "no" /\ Len(cands) >= 2 /\ candidate # 0
  /\ pc = "done" /\ ret = event

\* C4: in every candidate, each top-level field that is a mapping in the
\* argument is a mapping, and no attempt fails validation because a mapping
\* field had become a marker string.
C4_MappingFieldsStayMappings ==
  /\ raised # "validation"
  /\ \A i \in 1..Len(cands) : \A f \in MappingSet :
       heap.events[event][f] # 0 => heap.events[cands[i].a][f] # 0

IsContentList(val) == TypeOf(val) = "dict" /\ TypeOf(Get(Of(val), Key("content"))) = "list"
ContentOf(val) == Of(Get(Of(val), Key("content")))

\* what the claim says entry blk of response.content becomes
C6_Expected(blk, out) ==
  LET ty == Get(Of(blk), Key("type"))
      res == Get(Of(blk), Key("resource"))
      marker(text) == Dict(<<Entry(Key("type"), Text("text")), Entry(Key("text"), text)>>)
  IN CASE ty \in {Text("text"), Text("resource_link")} -> out = blk
       [] ty = Text("image") ->
            out = marker(Text("[image content redacted - not supported by mcpcat]"))
       [] ty = Text("audio") ->
            out = marker(Text("[audio content redacted - not supported by mcpcat]"))
       [] ty = Text("resource") ->
            IF TypeOf(res) = "dict" /\ \E i \in 1..Len(Of(res)) : Of(res)[i].k = Key("blob")
            THEN out = marker(Text("[binary resource content redacted - not supported by mcpcat]"))
            ELSE out = blk
       [] OTHER ->
            /\ TypeOf(out) = "dict" /\ Len(Of(out)) = 2
            /\ Get(Of(out), Key("type")) = Text("text")
            /\ Get(Of(out), Key("text")) = _unsupported_type_redacted(PyStr(ty))

\* C6: sanitize_event maps response.content position by position: same
\* length and order, each typed entry unchanged or replaced by the marker of
\* its kind.
C6_ContentMappedByPosition ==
  (sanitized # 0 /\ IsContentList(InputField("response")))
    => /\ IsContentList(SanitizedField("response"))
       /\ Len(ContentOf(SanitizedField("response"))) = Len(ContentOf(InputField("response")))
       /\ \A i \in 1..Len(ContentOf(InputField("response"))) :
            TypeOf(ContentOf(InputField("response"))[i]) = "dict"
              => C6_Expected(ContentOf(InputField("response"))[i],
                             ContentOf(SanitizedField("response"))[i])

\* [text, image, audio] was sanitized
C6_Witness ==
  /\ sanitized # 0
  /\ IsContentList(InputField("response"))
  /\ ContentOf(InputField("response")) = <<HelloBlock, ImageBlock, AudioBlock>>
  /\ ContentOf(SanitizedField("response"))[3] # AudioBlock

\* a text block, a resource_link block, or a resource block carrying only text
C7_Allowed(out) ==
  /\ TypeOf(out) = "dict"
  /\ LET ty == Get(Of(out), Key("type"))
         res == Get(Of(out), Key("resource"))
     IN \/ ty \in {Text("text"), Text("resource_link")}
        \/ ty = Text("resource") /\ TypeOf(res) = "dict" /\ ~HasKey(Of(res), Key("blob"))

\* C7: after sanitize_event every entry of response.content is a text block,
\* a resource_link block or a resource block carrying only text.
C7_OnlyTextualContent ==
  (sanitized # 0 /\ IsContentList(SanitizedField("response")))
    => \A i \in 1..Len(ContentOf(SanitizedField("response"))) :
         C7_Allowed(ContentOf(SanitizedField("response"))[i])

\* base64-alphabet characters and line breaks, at least one, then '=' only as
\* a run that ends the string
PaddedBase64(str) ==
  /\ \A i \in 1..Len(str) : SegClass(str[i]) \in {"b64", "nl", "cr", "eq"}
  /\ \A i \in 1..Len(str) : \A j \in 1..Len(str) :
       (SegClass(str[i]) = "eq" /\ i < j) => SegClass(str[j]) = "eq"
  /\ str # <<>> /\ SegClass(str[1]) # "eq"

\* the same, or the same followed by one final '\n' after the padding
PaddedBase64Newline(str) ==
  \/ PaddedBase64(str)
  \/ /\ Len(str) >= 2
     /\ str[Len(str)] = Run("nl", 1)
     /\ PaddedBase64(SubSeq(str, 1, Len(str) - 1))

\* the string values directly under parameters, with what they became
ScannedStrings ==
  IF sanitized = 0 \/ TypeOf(InputField("parameters")) # "dict" THEN {}
  ELSE {<<Of(Of(InputField("parameters"))[i].v), Of(SanitizedField("parameters"))[i].v>> :
          i \in {j \in 1..Len(Of(InputField("parameters"))) :
                   TypeOf(Of(InputField("parameters"))[j].v) = "str"}}

\* C8 as stated: a string is replaced by the binary-data marker exactly when
\* it has at least 10,240 characters, all of the base64 alphabet or line
\* breaks, with '=' only as trailing padding; otherwise it is unchanged.
C8_ReplacedIffPaddedBase64 ==
  \A p \in ScannedStrings :
    IF StrLen(p[1]) >= 10240 /\ PaddedBase64(p[1])
    THEN p[2] = Text("[binary data redacted - not supported by mcpcat]")
    ELSE p[2] = Str(p[1])

\* C8 as amended: ... or such a string followed by one final '\n' (where the
\* pattern's $ also matches); otherwise it is unchanged.
C8_ReplacedIffPatternMatches ==
  \A p \in ScannedStrings :
    IF StrLen(p[1]) >= 10240 /\ PaddedBase64Newline(p[1])
    THEN p[2] = Text("[binary data redacted - not supported by mcpcat]")
    ELSE p[2] = Str(p[1])

\* the string of exactly 10,240 base64 characters was replaced
C8_Witness ==
  <<B64(10240), Text("[binary data redacted - not supported by mcpcat]")>> \in ScannedStrings

\* some string within val, at any depth of mappings and sequences, has at
\* least the threshold's length and matches the pattern
RECURSIVE HoldsBlob(_)
HoldsBlob(val) ==
  CASE TypeOf(val) = "str" ->
         StrLen(Of(val)) >= _BASE64_SIZE_THRESHOLD /\ _BASE64_PATTERN(Of(val))
    [] TypeOf(val) \in {"list", "tuple"} -> \E i \in 1..Len(Of(val)) : HoldsBlob(Of(val)[i])
    [] TypeOf(val) = "dict" -> \E i \in 1..Len(Of(val)) : HoldsBlob(Of(val)[i].v)
    [] OTHER -> FALSE

\* C9: after sanitize_event no string within parameters or
\* response.structured_content is a large base64 string.
C9_NoBlobLeft ==
  sanitized # 0
    => /\ ~HoldsBlob(SanitizedField("parameters"))
       /\ TypeOf(SanitizedField("response")) = "dict"
            => ~HoldsBlob(Get(Of(SanitizedField("response")), Key("structured_content")))

\* C10: when the sanitized event fits the budget, truncate_event returns that
\* very event: nothing is normalized, every marker and string is as
\* sanitize_event left it.
C10_BudgetMeasuredAfterRedaction ==
  (sanitized # 0 /\ event = sanitized
     /\ model_dump_json_bytes(before, sanitized) <= MAX_EVENT_BYTES)
    => /\ pc = "done" /\ ret = sanitized
       /\ cands = <<>>
       /\ model_dump(heap, ret) = model_dump(before, sanitized)

\* the input exceeded the budget, its sanitized form did not and came back
C10_Witness ==
  /\ model_dump_json_bytes(input, 1) > MAX_EVENT_BYTES
  /\ sanitized # 0 /\ event = sanitized
  /\ TruncateReturned /\ ret = sanitized
  /\ model_dump_json_bytes(heap, ret) <= MAX_EVENT_BYTES
  /\ HoldsBlob(InputField("parameters")) /\ ~HoldsBlob(FieldValue(heap, ret, "parameters"))

\* C11: capture_exception never raises to its caller: for every raised value
\* it returns an ErrorData that has a message.
C11_CaptureNeverRaises ==
  /\ cap.pc # "raised"
  /\ cap.pc = "done" => cap.error_data.message[1] # ""

\* the errors reached from error i by following, from each error, the cause
\* link when its suppressed flag is set and the context link otherwise
RECURSIVE LinkedErrors(_, _, _)
LinkedErrors(g, i, fuel) ==
  LET x == IF g[i].suppress THEN g[i].cause ELSE g[i].context
  IN IF fuel = 0 \/ x < 1 THEN <<>> ELSE <<x>> \o LinkedErrors(g, x, fuel - 1)

\* the errors linked from the captured error 1 form an acyclic chain that
\* ends with an error that has no link, and each has a string form
AcyclicChain(g) ==
  LET path == LinkedErrors(g, 1, Len(g) + 1)
      last == IF path = <<>> THEN 1 ELSE path[Len(path)]
  IN /\ \A i \in 1..Len(path) : path[i] # 1 /\ \A j \in 1..Len(path) : i # j => path[i] # path[j]
     /\ (IF g[last].suppress THEN g[last].cause ELSE g[last].context) = 0
     /\ \A i \in 1..Len(g) : g[i].str_ok

UnwrapReturned == cap.pc \in {"unwound", "done"} /\ cap.exc[1] = "error"

\* C12: the chain never has more than 10 entries, and for an acyclic chain of
\* n linked errors unwrap_exception_chain returns exactly min(n, 10) entries.
C12_ChainLengthIsMinOfLinksAndTen ==
  /\ Len(cap.chain) <= 10
  /\ (UnwrapReturned /\ AcyclicChain(excs))
       => LET n == Len(LinkedErrors(excs, 1, Len(excs) + 1))
          IN Len(cap.chain) = IF n < 10 THEN n ELSE 10

\* the chain of 15 causes was captured and cut to 10 entries
C12_Witness ==
  /\ cap.pc = "done" /\ cap.exc[1] = "error" /\ AcyclicChain(excs)
  /\ Len(LinkedErrors(excs, 1, Len(excs) + 1)) = 15
  /\ Len(cap.error_data.chained_errors) = 10

\* A causes B, B causes A, A captured
TwoErrorCycle(g) ==
  /\ Len(g) = 2 /\ g[1].str_ok /\ g[2].str_ok
  /\ g[1].suppress /\ g[1].cause = 2
  /\ g[2].suppress /\ g[2].cause = 1

\* C13: unwinding ends on every link graph, cycles and self-links included;
\* no error is twice in the chain, the captured error is never in it, and on
\* a two-error cycle the chain has exactly one entry.
C13_UnwindingEndsWithoutRepeats ==
  /\ <>(cap.pc \in {"done", "raised"})
  /\ [](/\ \A i \in 1..Len(cap.chain) :
             /\ cap.chain[i].message # cap.exc[2]
             /\ \A j \in 1..Len(cap.chain) :
                  i # j => cap.chain[i].message # cap.chain[j].message
        /\ (UnwrapReturned /\ TwoErrorCycle(excs)) => Len(cap.chain) = 1)

\* the two-error cycle was captured, with one chain entry
C13_Witness ==
  /\ cap.pc = "done" /\ cap.exc[1] = "error" /\ TwoErrorCycle(excs)
  /\ Len(cap.error_data.chained_errors) = 1

ValueCallDone == call.fn = "_truncate_value" /\ call.done

\* some composite of the input is its own descendant
RECURSIVE HasCycle(_, _, _)
HasCycle(g, val, path) ==
  IF TypeOf(val) = "ref"
  THEN \/ Of(val) \in path
       \/ HasCycle(g, g[Of(val)], path \cup {Of(val)})
  ELSE IF TypeOf(val) = "dict" THEN \E i \in 1..Len(Of(val)) : HasCycle(g, Of(val)[i].v, path)
  ELSE IF TypeOf(val) = "list" THEN \E i \in 1..Len(Of(val)) : HasCycle(g, Of(val)[i], path)
  ELSE FALSE

\* an acyclic input written out as a tree: every reference replaced by a copy
\* of the composite it refers to
RECURSIVE Unfold(_, _)
Unfold(g, val) ==
  IF TypeOf(val) = "ref" THEN Unfold(g, g[Of(val)])
  ELSE IF TypeOf(val) = "dict"
       THEN Dict([i \in 1..Len(Of(val)) |-> Entry(Of(val)[i].k, Unfold(g, Of(val)[i].v))])
  ELSE IF TypeOf(val) = "list"
       THEN List([i \in 1..Len(Of(val)) |-> Unfold(g, Of(val)[i])])
  ELSE val

RECURSIVE HasCircularMarker(_)
HasCircularMarker(out) ==
  IF TypeOf(out) = "dict" THEN \E i \in 1..Len(Of(out)) : HasCircularMarker(Of(out)[i].v)
  ELSE IF TypeOf(out) = "list" THEN \E i \in 1..Len(Of(out)) : HasCircularMarker(Of(out)[i])
  ELSE out = Text("[circular reference]")

\* Input and output walked together from the root: wherever the input holds
\* a composite that is on the path from the root to that place, the output
\* holds the circular-reference marker; with exempt set, an entry of a
\* mapping located at or below the depth limit holds the depth marker.
RECURSIVE RevisitsMarked(_, _, _, _, _, _, _)
RevisitsMarked(g, val, out, path, d, inLimitDict, exempt) ==
  IF TypeOf(val) = "ref" /\ Of(val) \in path
  THEN IF exempt /\ inLimitDict
       THEN out = Str(<<Lit("[nested content truncated by MCPcat at depth "),
                        Num(call.max_depth), Lit("]")>>)
       ELSE out = Text("[circular reference]")
  ELSE IF ~IsObject(val) \/ TypeOf(out) \notin {"dict", "list"} THEN TRUE
  ELSE LET obj == IF TypeOf(val) = "ref" THEN g[Of(val)] ELSE val
           path1 == IF TypeOf(val) = "ref" THEN path \cup {Of(val)} ELSE path
       IN \A i \in 1..Len(Of(obj)) :
            i <= call.max_breadth
              => IF TypeOf(obj) = "dict"
                 THEN RevisitsMarked(g, Of(obj)[i].v, Get(Of(out), Of(obj)[i].k), path1,
                                     d + 1, d >= call.max_depth, exempt)
                 ELSE RevisitsMarked(g, Of(obj)[i], Of(out)[i], path1, d + 1, FALSE, exempt)

\* an acyclic input is rendered as the tree it unfolds to, every shared
\* composite in full at each of its positions, with no circular marker
SharedRenderedInFull ==
  ~HasCycle(call.objs, call.value, {})
    => /\ ~HasCircularMarker(call.out)
       /\ call.out = _truncate_value(Unfold(call.objs, call.value), call.max_depth,
                                     call.max_string_bytes, call.max_breadth, 0)

\* C14 as stated: _truncate_value returns on every input, cyclic ones
\* included; a composite met again on the current path is rendered as the
\* circular-reference marker; a composite shared by sibling branches is
\* rendered in full at both, and an acyclic input gets no circular marker.
C14_RevisitedIsCircularMarker ==
  /\ <>call.done
  /\ [](ValueCallDone
         => /\ RevisitsMarked(call.objs, call.value, call.out, {}, 0, FALSE, FALSE)
            /\ SharedRenderedInFull)

\* C14 as amended: ... is rendered as the circular-reference marker, unless it
\* is met as an entry of a mapping located at the depth limit, where it gets
\* the depth marker as every composite entry does; ...
C14_RevisitedIsMarkedUnlessAtDepthLimit ==
  /\ <>call.done
  /\ [](ValueCallDone
         => /\ RevisitsMarked(call.objs, call.value, call.out, {}, 0, FALSE, TRUE)
            /\ SharedRenderedInFull)

\* the self-referencing mapping came back with the circular marker
C14_Witness ==
  /\ ValueCallDone /\ HasCycle(call.objs, call.value, {})
  /\ TypeOf(call.out) = "dict"
  /\ Get(Of(call.out), Key("self")) = Text("[circular reference]")
  /\ Get(Of(call.out), Key("key")) = Text("value")

\* C15: when processing one item fails during sanitize_event, no exception
\* reaches the caller: sanitize_event returns an event (with that item passed
\* through and the others sanitized).
C15_ItemFailureDoesNotAbort ==
  pc # "sanitize_raised"

StringCallDone == call.fn = "_truncate_string" /\ call.done

\* C16: the UTF-8 size of _truncate_string(s, L), marker included, is at most
\* L, for every string s and every limit L from 1 to MAX_STRING_BYTES.
C16_ResultWithinLimit ==
  StringCallDone => StrBytes(Of(call.out)) <= call.max_string_bytes

\* p is made of the first characters of str, each whole
IsCharPrefix(p, str) ==
  \/ p = <<>>
  \/ /\ Len(p) <= Len(str)
     /\ \A i \in 1..(Len(p) - 1) : p[i] = str[i]
     /\ p[Len(p)][1] = str[Len(p)][1] /\ p[Len(p)][2] = str[Len(p)][2]
     /\ p[Len(p)][3] >= 1 /\ p[Len(p)][3] <= str[Len(p)][3]

\* C17: a string of at most max_bytes bytes (max_bytes itself included) is
\* returned unchanged; a longer one comes back as some of its first
\* characters, each whole, followed by the marker that states its size in bytes.
C17_UnchangedOrPrefixThenMarker ==
  StringCallDone
    => LET str == Of(call.value)
           out == Of(call.out)
       IN IF StrBytes(str) <= call.max_string_bytes
          THEN out = str
          ELSE /\ Len(out) >= 3
               /\ SubSeq(out, Len(out) - 2, Len(out))
                    = <<Lit("[string truncated by MCPcat from "), Num(StrBytes(str)),
                        Lit(" bytes]")>>
               /\ IsCharPrefix(SubSeq(out, 1, Len(out) - 3), str)

\* 2,561 four-byte characters cut at a byte count that is no multiple of four:
\* whole characters and the marker came back
C17_Witness ==
  /\ StringCallDone
  /\ Of(call.value) = <<Run("u4", 2561)>> /\ call.max_string_bytes = 10240
  /\ Len(Of(call.out)) = 4
  /\ Of(call.out)[1] = Run("u4", 2548)

\* the argument is a dict or list written out as a tree, above the depth limit
TopLevelTree(ty) ==
  /\ ValueCallDone /\ call.objs = <<>> /\ TypeOf(call.value) = ty
  /\ call.max_depth >= 1

\* C18: a mapping or sequence of n entries normalized with breadth limit B has
\* n entries and no summary when n <= B, and otherwise B + 1 entries: the
\* first B input entries in order, then one summary entry reporting n - B.
C18_BreadthCapAndSummary ==
  LET n == Len(Of(call.value))
      B == call.max_breadth
      out == Of(call.out)
      summary == Str(<<Lit("[... "), Num(n - B), Lit(" more items truncated by MCPcat]")>>)
  IN /\ TopLevelTree("dict")
          => /\ TypeOf(call.out) = "dict"
             /\ Len(out) = IF n <= B THEN n ELSE B + 1
             /\ \A i \in 1..Len(out) : i <= B => out[i].k = Of(call.value)[i].k
             /\ n > B => out[B + 1] = Entry(Key("__truncated__"), summary)
     /\ TopLevelTree("list")
          => /\ TypeOf(call.out) = "list"
             /\ Len(out) = IF n <= B THEN n ELSE B + 1
             /\ n > B => out[B + 1] = summary

\* the depth marker naming the call's depth limit
C19_Marker ==
  Str(<<Lit("[nested content truncated by MCPcat at depth "), Num(call.max_depth), Lit("]")>>)

\* A mapping and its rendering, walked together from depth d: above the limit
\* the mappings among its entries are walked in turn; at the limit its scalar
\* and string entries are as in the input and its composite entries are the
\* depth marker.  The entries of a mapping that has more of them than the
\* breadth limit are left to C18.
RECURSIVE C19_MappingPolicy(_, _, _)
C19_MappingPolicy(val, out, d) ==
  /\ TypeOf(out) = "dict"
  /\ \A i \in 1..Len(Of(val)) :
       Len(Of(val)) <= call.max_breadth
         => LET child == Of(val)[i].v
                got == Get(Of(out), Of(val)[i].k)
            IN IF d >= call.max_depth
               THEN IF IsComposite(child) THEN got = C19_Marker
                    ELSE IF TypeOf(child) = "str"
                            /\ StrBytes(Of(child)) > call.max_string_bytes THEN TRUE
                    ELSE got = child
               ELSE TypeOf(child) = "dict" => C19_MappingPolicy(child, got, d + 1)

RECURSIVE C19_Leaf(_, _)
C19_Leaf(out, k) ==
  IF k = 0 THEN out
  ELSE IF TypeOf(out) = "dict" THEN C19_Leaf(Get(Of(out), Key("nested")), k - 1)
  ELSE Null

\* C19: with depth limit D, a chain of mappings D levels deep keeps its leaf;
\* a mapping located at depth D stays a mapping, its scalar and string entries
\* retained and its composite entries replaced by the marker naming D; the
\* top-level mapping is never replaced, D = 0 included.
C19_MappingsAtDepthLimit ==
  (ValueCallDone /\ call.objs = <<>> /\ TypeOf(call.value) = "dict")
    => /\ C19_MappingPolicy(call.value, call.out, 0)
       /\ call.value = NestedChain(call.max_depth)
            => C19_Leaf(call.out, call.max_depth) = Text("leaf")

\* the mixed mapping sat at depth 2 = D: still a mapping, entries marked
C19_Witness ==
  /\ ValueCallDone /\ call.max_depth = 2 /\ call.max_breadth = 500
  /\ call.value = Wrapped(MixedDict, 2)
  /\ LET at == Get(Of(Get(Of(call.out), Key("w"))), Key("w"))
     IN /\ TypeOf(at) = "dict"
        /\ Get(Of(at), Key("k")) = IntV(1)
        /\ Get(Of(at), Key("l")) = C19_Marker

\* A value and its rendering walked together: a sequence located at the
\* depth limit is a sequence in the output, its scalar and string items as in
\* the input and its composite items the depth marker.
RECURSIVE C20_SequencePolicy(_, _, _)
C20_SequencePolicy(val, out, d) ==
  IF TypeOf(val) = "list"
  THEN /\ TypeOf(out) = "list"
       /\ \A i \in 1..Len(Of(val)) :
            i <= call.max_breadth
              => IF d >= call.max_depth
                 THEN IF IsComposite(Of(val)[i]) THEN Of(out)[i] = C19_Marker
                      ELSE Of(out)[i] = Of(val)[i]
                 ELSE C20_SequencePolicy(Of(val)[i], Of(out)[i], d + 1)
  ELSE IF TypeOf(val) = "dict" /\ TypeOf(out) = "dict" /\ d < call.max_depth
  THEN \A i \in 1..Len(Of(val)) :
         i <= call.max_breadth
           => C20_SequencePolicy(Of(val)[i].v, Get(Of(out), Of(val)[i].k), d + 1)
  ELSE TRUE

\* C20: a sequence located at the depth limit gets the mapping's treatment:
\* it stays a sequence, scalar and string items retained, only its composite
\* items replaced by the depth marker.
C20_SequencesAtDepthLimit ==
  (ValueCallDone /\ call.objs = <<>> /\ call.max_string_bytes = MAX_STRING_BYTES)
    => C20_SequencePolicy(call.value, call.out, 0)

\* The attempts of the loop that have started, in order: the limits each runs
\* with.  While the loop is about to run a pass, its locals are the last.
AttemptLimits(c) == [depth |-> c.depth, string_bytes |-> c.string_bytes, breadth |-> c.breadth]
Attempts ==
  [k \in 1..Len(cands) |-> AttemptLimits(cands[k])]
    \o IF pc = "loop" /\ string_bytes >= 1
       THEN <<[depth |-> depth, string_bytes |-> string_bytes, breadth |-> breadth]>>
       ELSE <<>>
RECURSIVE Pow2(_)
Pow2(n) == IF n = 0 THEN 1 ELSE 2 * Pow2(n - 1)
Max(a, b) == IF a >= b THEN a ELSE b

\* C21: attempt k of the loop runs with depth limit max(MIN_DEPTH,
\* MAX_DEPTH - (k - 1)) and string limit floor(MAX_STRING_BYTES / 2^(k-1)); no
\* attempt runs with a depth limit below MIN_DEPTH or a string limit below 1,
\* and no limit is larger than in the attempt before.
C21_LimitsFollowSchedule ==
  \A k \in 1..Len(Attempts) :
    /\ Attempts[k].depth = Max(MIN_DEPTH, MAX_DEPTH - (k - 1))
    /\ Attempts[k].string_bytes = MAX_STRING_BYTES \div Pow2(k - 1)
    /\ Attempts[k].depth >= MIN_DEPTH
    /\ Attempts[k].string_bytes >= 1
    /\ k > 1 => /\ Attempts[k].depth <= Attempts[k - 1].depth
                /\ Attempts[k].string_bytes <= Attempts[k - 1].string_bytes
                /\ Attempts[k].breadth <= Attempts[k - 1].breadth
\* the depth limit has stayed at its floor for several attempts
C21_Witness == Len(cands) >= 8 /\ cands[8].depth = MIN_DEPTH /\ cands[8].string_bytes = 80

\* C22: no attempt runs with a breadth limit below 10.
C22_BreadthNeverBelowFloor ==
  \A k \in 1..Len(Attempts) : Attempts[k].breadth >= BREADTH_FLOOR

\* C23: an attempt with a depth limit above MIN_DEPTH runs with breadth limit
\* MAX_BREADTH, and before any attempt with a smaller breadth limit an attempt
\* with depth limit MIN_DEPTH and breadth limit MAX_BREADTH has run and has
\* not fitted.
C23_BreadthReducedAfterDepthFloorTried ==
  \A k \in 1..Len(Attempts) :
    /\ Attempts[k].depth > MIN_DEPTH => Attempts[k].breadth = MAX_BREADTH
    /\ Attempts[k].breadth < MAX_BREADTH =>
         \E j \in 1..(k - 1) : /\ Attempts[j].depth = MIN_DEPTH
                               /\ Attempts[j].breadth = MAX_BREADTH
                               /\ ~FitsBudget(cands[j].bytes)

\* C24: truncate_event returns for every event after at most 14 attempts:
\* the string limit is a natural number that every attempt which does not
\* return lowers, the loop is left once it is below 1, which is so after the
\* 14th attempt; every attempt but the last produced a candidate that does
\* not fit, and nothing is attempted once truncate_event has returned.
C24_TerminatesWithinFourteenAttempts ==
  /\ [](/\ Len(Attempts) <= 14
        /\ \A i \in 1..(Len(Attempts) - 1) : ~FitsBudget(cands[i].bytes)
        /\ pc = "loop" => string_bytes >= 0 /\ (Len(cands) = 14 => string_bytes < 1))
  /\ [][/\ (pc = "loop" /\ pc' = "loop") =>
             (string_bytes' < string_bytes /\ Len(cands') = Len(cands) + 1)
        /\ pc = "loop" => pc' \in {"loop", "done"}
        /\ pc = "done" => (pc' = "done" /\ cands' = cands /\ ret' = ret)]_vars
\* the loop ran out of limits after its 14th attempt
C24_Witness == pc = "done" /\ Len(cands) = 14 /\ string_bytes = 0 /\ ret = candidate

\* the string s is the original string, or a prefix of its characters
\* followed by one marker that tells the original's size
OneMarkerOfOriginal(s, original) ==
  \/ s = original
  \/ /\ Len(s) >= 3
     /\ SubSeq(s, Len(s) - 2, Len(s)) = TruncatedMarker(StrBytes(original))
     /\ IsCharPrefix(SubSeq(s, 1, Len(s) - 3), original)

\* C25: the candidate an attempt has just produced is the normalization, with
\* that attempt's limits, of the dump of the event truncate_event was given; a
\* string field of a candidate is the original's, or a prefix of it and one
\* marker with the original's size.
C25_CandidatesFromFreshDump ==
  \A k \in {Len(cands)} \ {0} :
    \E v \in {model_validate(before,
                _truncate_value(model_dump(before, event), cands[k].depth,
                                cands[k].string_bytes, cands[k].breadth, 0))} :
       /\ v.ok
       /\ model_dump(heap, cands[k].a) = model_dump(v.h, v.a)
       /\ \A f \in StringSet :
            TypeOf(FieldValue(before, event, f)) = "str" =>
              /\ TypeOf(FieldValue(heap, cands[k].a, f)) = "str"
              /\ OneMarkerOfOriginal(Of(FieldValue(heap, cands[k].a, f)),
                                     Of(FieldValue(before, event, f)))
\* a second candidate whose response was cut again, to a smaller limit
C25_Witness ==
  /\ Len(cands) >= 2
  /\ TypeOf(FieldValue(before, event, "response")) = "dict"
  /\ HasKey(Of(FieldValue(before, event, "response")), Key("output"))
  /\ FieldValue(heap, cands[1].a, "response") # FieldValue(before, event, "response")
  /\ FieldValue(heap, cands[2].a, "response") # FieldValue(heap, cands[1].a, "response")

\* C26: when the loop runs out of limits with no candidate that fits, the
\* candidate returned is no larger than any candidate before it.
C26_ExhaustedReturnsSmallest ==
  (pc = "done" /\ raised = "no" /\ cands # <<>> /\ ~FitsBudget(cands[Len(cands)].bytes))
    => /\ ret = cands[Len(cands)].a
       /\ \A i \in 1..Len(cands) : cands[Len(cands)].bytes <= cands[i].bytes

\* C27: each entry of the chain is what the error before it (the captured
\* error for the first) links to, through __cause__ when that error's
\* __suppress_context__ is set and through __context__ otherwise; nothing
\* follows an error whose link of that kind is absent, whatever its other
\* link; an entry for a value that is no error has no type and is the last.
C27_ChainFollowsSelectedLink ==
  (cap.pc \in {"unwrap", "unwound", "done"} /\ cap.exc[1] = "error") =>
    /\ \A i \in 1..Len(cap.chain) :
         LET pred == IF i = 1 THEN cap.exc[2] ELSE cap.chain[i - 1].message
         IN /\ IsBaseException(pred)
            /\ cap.chain[i].message # 0
            /\ cap.chain[i].message =
                 IF excs[pred].suppress THEN excs[pred].cause ELSE excs[pred].context
            /\ cap.chain[i].type = IF cap.chain[i].message >= 1 THEN "error" ELSE "None"
            /\ cap.chain[i].type = "None" => i = Len(cap.chain)
    /\ (excs[cap.exc[2]].suppress /\ excs[cap.exc[2]].cause = 0) => cap.chain = <<>>
    /\ cap.pc = "done" => cap.error_data.chained_errors = cap.chain
\* the error reached through the cause has its flag set and no cause, and a
\* context that was not visited: the chain ends with it
C27_Witness ==
  /\ cap.pc = "done" /\ cap.exc[1] = "error"
  /\ Len(cap.error_data.chained_errors) = 1
  /\ excs[1].suppress /\ excs[1].cause = 2
  /\ excs[2].suppress /\ excs[2].cause = 0 /\ excs[2].context = 3

\* no string of val is longer than ms bytes, no mapping or sequence of val
\* has more than mb entries
RECURSIVE WithinLimits(_, _, _)
WithinLimits(val, ms, mb) ==
  CASE TypeOf(val) = "str" -> StrBytes(Of(val)) <= ms
    [] TypeOf(val) = "dict" ->
         /\ Len(Of(val)) <= mb
         /\ \A i \in 1..Len(Of(val)) : WithinLimits(Of(val)[i].v, ms, mb)
    [] TypeOf(val) \in {"list", "tuple"} ->
         /\ Len(Of(val)) <= mb
         /\ \A i \in 1..Len(Of(val)) : WithinLimits(Of(val)[i], ms, mb)
    [] OTHER -> TRUE
SecondPassDone == call.fn = "_truncate_value" /\ call.done2

\* C29: a second pass of _truncate_value over its own result, with the same
\* limits, returns that result unchanged.
C29_SecondPassUnchanged == SecondPassDone => call.out2 = call.out

\* C29, amended: a second pass returns the result unchanged when the result
\* is within the limits: no string of it is longer than the string limit
\* (markers included) and no mapping or sequence of it has more entries than
\* the breadth limit (the summary included).
C29_SecondPassUnchangedWithinLimits ==
  (SecondPassDone /\ WithinLimits(call.out, call.max_string_bytes, call.max_breadth))
    => call.out2 = call.out
\* the first pass cut a string of 100 bytes to the limit of 50, marker
\* included, and the second pass has run
C29_Witness ==
  /\ SecondPassDone
  /\ call.value = Dict(<<Entry(Key("s"), Str(<<Run("sp", 100)>>))>>)
  /\ call.max_string_bytes = 50 /\ call.max_breadth >= 1
  /\ call.out # call.value
  /\ WithinLimits(call.out, call.max_string_bytes, call.max_breadth)
  /\ call.out2 = call.out

\* C28: whatever get_trace_id and clear_old_sessions calls are made on a
\* TraceContext, two get_trace_id calls with the same non-empty session id
\* return the same trace ID.
C28_SameTraceIdPerSession ==
  \A i \in 1..Len(tc.returned), j \in 1..Len(tc.returned) :
    (tc.returned[i].session_id = tc.returned[j].session_id /\ tc.returned[i].session_id # "")
      => tc.returned[i].trace_id = tc.returned[j].trace_id

\* C30: a request that reached the downstream handler with tracing enabled
\* has exactly one event submitted, and none before the handler finished;
\* when the handler raised, the event has is_error = True and a captured
\* error and the caller gets the handler's exception; the caller gets what
\* the handler's try statement gave, whether publish_event raised or not.
C30_OneEventAfterHandler ==
  /\ mw.pc # "none" =>
       /\ mw.published # <<>> => mw.outcome[1] # "none"
       /\ (mw.pc = "done" /\ mw.enable_tracing /\ mw.outcome[1] # "none") =>
            /\ Len(mw.published) = 1
            /\ mw.outcome[1] = "raise" =>
                 /\ mw.published[1].event.is_error = "True"
                 /\ mw.published[1].event.error # "None"
                 /\ mw.caller = <<"raise", "handler">>
            /\ mw.caller = mw.pending
====
